---- MODULE Spec2Model ----
(***************************************************************************)
(* Model of the questionnaire package: conditions (conditions.py), the     *)
(* rooted directed multigraph, the path resolver find_path and the two     *)
(* iterators BFSIterator and PrompterIterator (graph.py).                  *)
(***************************************************************************)
EXTENDS Integers, Sequences, FiniteSets, TLC

(***************************************************************************)
(* Bounds                                                                  *)
(***************************************************************************)
\* identifiers of the vertices used while building a graph
MaxId == 2
\* number of add_edge calls that may succeed while building a graph
MaxEdges == 2

\* number of outgoing edges handed to find_path
MaxAdj == 3

\* vertices of the graphs that are iterated
MaxVertices == 3
\* edges of the graphs that are iterated
MaxWalkEdges == 2
\* vertices one iterator may yield before the caller abandons it
MaxSteps == 4

\* ints 0..MaxVal and as many strings from "a" on are compared by evaluate
MaxVal == 1

\* Python's None, where an error message or a name is expected
None == "None"

(***************************************************************************)
(* Values (types.py InputT): an int, or a one-character string ordered     *)
(* by its character code.                                                  *)
(***************************************************************************)
Int_(n) == [type |-> "int", val |-> n]
Str_(n) == [type |-> "str", val |-> n]

\* the strings "a", "b", "x", "z" and the int 5
StrA == Str_(97)
StrB == Str_(98)
StrX == Str_(120)
StrZ == Str_(122)
Int5 == Int_(5)

\* no entry under a key of a dict
Absent == [type |-> "absent", val |-> 0]

(***************************************************************************)
(* conditions.py                                                           *)
(***************************************************************************)
Operator == {"==", "!=", "<", "<=", ">", ">="}

DefaultCondition == [kind |-> "default", op |-> "TRUE", compare_to |-> Int_(0)]

ComparisonCondition(op, compare_to) ==
    [kind |-> "comparison", op |-> op, compare_to |-> compare_to]

\* outcome of Condition.evaluate: a boolean, or a raised TypeError
Returned(b) == [raised |-> "no", value |-> b]
TypeError == [raised |-> "TypeError", value |-> FALSE]

DefaultCondition_evaluate(input_data) == Returned(TRUE)

\* Python semantics of the six operators between int and str: == and != are
\* defined across types (never equal), the four orderings raise TypeError
ComparisonCondition_evaluate(c, input_data) ==
    LET same == input_data.type = c.compare_to.type
        x == input_data.val
        y == c.compare_to.val
    IN CASE c.op = "==" -> Returned(same /\ x = y)
         [] c.op = "!=" -> Returned(~(same /\ x = y))
         [] c.op = "<"  -> IF same THEN Returned(x < y) ELSE TypeError
         [] c.op = "<=" -> IF same THEN Returned(x <= y) ELSE TypeError
         [] c.op = ">"  -> IF same THEN Returned(x > y) ELSE TypeError
         [] c.op = ">=" -> IF same THEN Returned(x >= y) ELSE TypeError

evaluate(user_input, condition) ==
    IF condition.kind = "default"
    THEN DefaultCondition_evaluate(user_input)
    ELSE ComparisonCondition_evaluate(condition, user_input)

(***************************************************************************)
(* graph.py: Vertex                                                        *)
(***************************************************************************)
PromptOf(k) == <<"prompt", k>>

Vertex(identifier, prompt) == [identifier |-> identifier, prompt |-> prompt]

Vertex_eq(v, w) == v.prompt = w.prompt /\ v.identifier = w.identifier

\* Vertex objects the caller holds while building: an object is a handle
\* <<identifier, copy>>; copy 0 and copy 1 of identifier 1 are two objects
\* with the same identifier and prompt
Objs == {<<i, 0>> : i \in 1..MaxId} \cup {<<1, 1>>}

\* None where an object is expected, and where a Vertex is expected
NoneObj == <<0, 0>>
NoneVertex == Vertex(0, PromptOf(0))

Deref(o) == Vertex(o[1], PromptOf(o[1]))

\* the Vertex with identifier k
V(k) == Vertex(k, PromptOf(k))

(***************************************************************************)
(* State                                                                   *)
(***************************************************************************)
VARIABLES
    nodes,      \* RootedDirectedGraph._graph: the nodes (keyed by __eq__/__hash__)
    edges,      \* RootedDirectedGraph._graph: the edges, in insertion order
    root,       \* RootedDirectedGraph._root: an object of Objs, or NoneObj
    call,       \* the last graph call: its name and the error it raised
    value,      \* find_path: the argument value
    vertices,   \* find_path: the argument vertices (a list of AdjacentVertex)
    found,      \* find_path: what the call returned or raised
    mode,       \* which iterator the caller drives: "prompter" or "bfs"
    started,    \* __iter__ has set the iterator's attributes
    current_vertex,   \* PrompterIterator.current_vertex
    previous_vertex,  \* PrompterIterator.previous_vertex
    input_mapping,    \* the dict shared by PrompterIterator and its Prompters
    pending,    \* the vertex of the last Prompter yielded and not yet prompted
    queue,      \* BFSIterator.queue
    visited,    \* BFSIterator.visited
    yielded,    \* the vertices the iterator returned since __iter__
    outcome,    \* the last iterator call: what it returned or raised
    context,    \* the context dict of the Prompters: identifier -> auto_input
    asked,      \* what read_user_variable returned during the last prompt()
    adjacent,   \* what the last get_adjacent call returned
    ev_condition,  \* Condition.evaluate: the condition
    ev_input,      \* Condition.evaluate: the argument input_data
    ev_result,     \* Condition.evaluate: what the call returned or raised
    its         \* two more PrompterIterators over the graph, each with its dict

gvars == <<nodes, edges, root>>
fvars == <<value, vertices, found>>
ivars == <<mode, started, current_vertex, previous_vertex, input_mapping,
           pending, queue, visited, yielded, outcome>>
evars == <<ev_condition, ev_input, ev_result>>
vars == <<nodes, edges, root, call, value, vertices, found, mode, started,
          current_vertex, previous_vertex, input_mapping, pending, queue,
          visited, yielded, outcome, context, asked, adjacent, ev_condition,
          ev_input, ev_result, its>>

Edge(source, destination, condition) ==
    [source |-> source, destination |-> destination, condition |-> condition]

\* conditions used while building
BuildConditions ==
    {DefaultCondition, ComparisonCondition("==", StrA)}

Call(op, raised) == [op |-> op, raised |-> raised]

NoCall == Call("none", None)

InitGraph ==
    /\ nodes = {}
    /\ edges = <<>>
    /\ root = NoneObj

\* the raised errors
RootConflict == "graph already has a root"
DuplicateDefaultPath == "vertex already contains a defaulted path"
NoRoot == "no root exists"
AmbiguousPath == "ambiguous paths"
StopIteration == "StopIteration"
KeyError == "KeyError"
AttributeError == "AttributeError"

\* a root check that never raises
check_and_set_root_never_raises(r, v) == FALSE

\* _check_and_set_root raises iff a root exists and is not the same object
check_and_set_root_raises(r, v) == r # NoneObj /\ r # v

\* a scan that looks at the parallel edges from source to itself only
HasDefaultPath_self_loops_only(ns, es, source) ==
    /\ \E n \in ns : Vertex_eq(n, source)
    /\ \E i \in 1..Len(es) :
          /\ Vertex_eq(es[i].source, source)
          /\ Vertex_eq(es[i].destination, source)
          /\ es[i].condition.kind = "default"

\* add_edge's scan: source is a node and one of its out-edges is a default
HasDefaultPath(ns, es, source) ==
    /\ \E n \in ns : Vertex_eq(n, source)
    /\ \E i \in 1..Len(es) :
          /\ Vertex_eq(es[i].source, source)
          /\ es[i].condition.kind = "default"

add_vertex(o, isroot) ==
    /\ call' = Call("add_vertex",
                     IF isroot /\ check_and_set_root_raises(root, o)
                     THEN RootConflict ELSE None)
    /\ IF isroot /\ check_and_set_root_raises(root, o)
       THEN UNCHANGED gvars
       ELSE /\ root' = IF isroot THEN o ELSE root
            /\ nodes' = nodes \cup {Deref(o)}
            /\ UNCHANGED edges
    /\ UNCHANGED <<fvars, ivars, context, asked, adjacent, evars, its>>

add_edge(s, d, condition, isroot) ==
    LET conflict == isroot /\ check_and_set_root_raises(root, s)
        dup == /\ condition.kind = "default"
               /\ HasDefaultPath(nodes, edges, Deref(s))
    IN /\ call' = Call("add_edge",
                        IF conflict THEN RootConflict
                        ELSE IF dup THEN DuplicateDefaultPath
                        ELSE None)
       /\ IF conflict
          THEN UNCHANGED gvars
          ELSE /\ root' = IF isroot THEN s ELSE root
               /\ IF dup
                  THEN UNCHANGED <<nodes, edges>>
                  ELSE /\ Len(edges) < MaxEdges
                       /\ edges' = Append(edges,
                              Edge(Deref(s), Deref(d), condition))
                       /\ nodes' = nodes \cup {Deref(s), Deref(d)}
       /\ UNCHANGED <<fvars, ivars, context, asked, adjacent, evars, its>>

AddVertex == \E o \in Objs, isroot \in BOOLEAN : add_vertex(o, isroot)

\* the destinations: one object for each identifier
DestObjs == {o \in Objs : o[2] = 0}

AddEdge ==
    \E s \in Objs, d \in DestObjs, c \in BuildConditions, isroot \in BOOLEAN :
        add_edge(s, d, c, isroot)

(***************************************************************************)
(* graph.py: find_path                                                     *)
(***************************************************************************)
AdjacentVertex(vertex, condition) == [vertex |-> vertex, condition |-> condition]

Found(go_to) == [raised |-> None, go_to |-> go_to]
Raised(error) == [raised |-> error, go_to |-> NoneVertex]

\* the for loop of find_path, from the state (path_found, go_to)
RECURSIVE find_path_loop(_, _, _, _)
find_path_loop(val, vs, path_found, go_to) ==
    IF vs = <<>>
    THEN Found(go_to)
    ELSE LET v == Head(vs)
             result == evaluate(val, v.condition)
         IN IF result.raised # "no"
            THEN Raised(result.raised)
            ELSE IF result.value /\ path_found
            THEN Raised(AmbiguousPath)
            ELSE IF result.value
            THEN find_path_loop(val, Tail(vs), TRUE, v.vertex)
            ELSE find_path_loop(val, Tail(vs), path_found, go_to)

\* a resolver that returns at the first match
find_path_first_match(val, vs) ==
    LET hits == {i \in 1..Len(vs) : evaluate(val, vs[i].condition).value}
    IN IF hits = {}
       THEN Found(NoneVertex)
       ELSE Found(vs[CHOOSE i \in hits : \A j \in hits : i <= j].vertex)

find_path(val, vs) == find_path_loop(val, vs, FALSE, NoneVertex)

(***************************************************************************)
(* graph.py: RootedDirectedGraph.get_adjacent                              *)
(***************************************************************************)
\* the out-edges in the order of networkx's adjacency dict: grouped by
\* neighbour, the neighbours in the order of their first edge, the parallel
\* edges to one neighbour in insertion order
RECURSIVE ByNeighbor(_)
ByNeighbor(out) ==
    IF out = <<>>
    THEN <<>>
    ELSE LET d == Head(out).destination
         IN SelectSeq(out, LAMBDA e : Vertex_eq(e.destination, d))
            \o ByNeighbor(SelectSeq(out, LAMBDA e : ~Vertex_eq(e.destination, d)))

\* a get_adjacent over a graph that keeps one edge per pair of vertices
get_adjacent_one_per_neighbor(ns, es, v) ==
    IF ~(\E n \in ns : Vertex_eq(n, v))
    THEN <<>>
    ELSE LET out == SelectSeq(es, LAMBDA e : Vertex_eq(e.source, v))
             first == {i \in 1..Len(out) :
                          \A j \in 1..(i - 1) :
                              ~Vertex_eq(out[j].destination, out[i].destination)}
         IN SelectSeq([i \in 1..Len(out) |->
                          AdjacentVertex(out[i].destination, out[i].condition)],
                      LAMBDA a : \E i \in first :
                          a = AdjacentVertex(out[i].destination,
                                             out[i].condition))

get_adjacent(ns, es, v) ==
    IF ~(\E n \in ns : Vertex_eq(n, v))
    THEN <<>>
    ELSE LET out == ByNeighbor(SelectSeq(es, LAMBDA e : Vertex_eq(e.source, v)))
         IN [i \in 1..Len(out) |->
                AdjacentVertex(out[i].destination, out[i].condition)]

\* a get_adjacent that makes the vertex asked for a node of the graph
get_adjacent_nodes_adds_vertex(ns, es, v) == ns \cup {v}

\* the nodes of _graph after get_adjacent(v): the membership test and the
\* reads of adj add no node
get_adjacent_nodes(ns, es, v) == ns

(***************************************************************************)
(* graph.py: BFSIterator                                                   *)
(***************************************************************************)
BFSIterator_iter(r) ==
    IF r = NoneObj
    THEN [raised |-> NoRoot, queue |-> <<>>]
    ELSE [raised |-> None, queue |-> <<Deref(r)>>]

\* a __next__ that never looks at visited nor adds to it
BFSIterator_next_without_visited(ns, es, q, vis) ==
    IF Len(q) > 0
    THEN LET v == Head(q)
             adj_vertices == get_adjacent(ns, es, v)
         IN [raised |-> None,
             queue |-> Tail(q) \o
                 [i \in 1..Len(adj_vertices) |-> adj_vertices[i].vertex],
             visited |-> vis,
             vertex |-> v]
    ELSE [raised |-> StopIteration, queue |-> q, visited |-> vis,
          vertex |-> NoneVertex]

\* __next__ from the state (q, vis): the state it leaves and what it returns
\* or raises; the result of the recursive call is dropped, a StopIteration
\* raised by it propagates
RECURSIVE BFSIterator_next(_, _, _, _)
BFSIterator_next(ns, es, q, vis) ==
    IF Len(q) > 0
    THEN LET v == Head(q)
             inner == IF v.identifier \in vis
                      THEN BFSIterator_next(ns, es, Tail(q), vis)
                      ELSE [raised |-> None, queue |-> Tail(q),
                            visited |-> vis, vertex |-> NoneVertex]
             adj_vertices == get_adjacent(ns, es, v)
         IN IF inner.raised # None
            THEN inner
            ELSE [raised |-> None,
                  queue |-> inner.queue \o
                      [i \in 1..Len(adj_vertices) |-> adj_vertices[i].vertex],
                  visited |-> inner.visited \cup {v.identifier},
                  vertex |-> v]
    ELSE [raised |-> StopIteration, queue |-> q, visited |-> vis,
          vertex |-> NoneVertex]

(***************************************************************************)
(* graph.py: PrompterIterator and Prompter                                 *)
(***************************************************************************)
\* an __iter__ without the root check
PrompterIterator_iter_unchecked(r) ==
    [raised |-> None, current_vertex |-> Deref(r),
     previous_vertex |-> NoneVertex]

PrompterIterator_iter(r) ==
    IF r = NoneObj
    THEN [raised |-> NoRoot, current_vertex |-> NoneVertex,
          previous_vertex |-> NoneVertex]
    ELSE [raised |-> None, current_vertex |-> Deref(r),
          previous_vertex |-> NoneVertex]

\* a __next__ that ends the walk when the vertex found has no out-edge,
\* without yielding it
PrompterIterator_next_stops_before_leaf(ns, es, cur, prev, mapping) ==
    IF cur = NoneVertex
    THEN [raised |-> StopIteration, current_vertex |-> cur,
          previous_vertex |-> prev]
    ELSE IF prev # NoneVertex
    THEN IF mapping[prev.identifier] = Absent
         THEN [raised |-> KeyError, current_vertex |-> cur,
               previous_vertex |-> prev]
         ELSE LET r == find_path(mapping[prev.identifier],
                                 get_adjacent(ns, es, prev))
              IN IF r.raised # None
                 THEN [raised |-> r.raised, current_vertex |-> cur,
                       previous_vertex |-> prev]
                 ELSE IF r.go_to = NoneVertex
                         \/ get_adjacent(ns, es, r.go_to) = <<>>
                 THEN [raised |-> StopIteration, current_vertex |-> NoneVertex,
                       previous_vertex |-> prev]
                 ELSE [raised |-> None, current_vertex |-> r.go_to,
                       previous_vertex |-> r.go_to]
    ELSE [raised |-> None, current_vertex |-> cur, previous_vertex |-> cur]

\* a __next__ that sets previous_vertex at the first step only
PrompterIterator_next_keeps_previous(ns, es, cur, prev, mapping) ==
    IF cur = NoneVertex
    THEN [raised |-> StopIteration, current_vertex |-> cur,
          previous_vertex |-> prev]
    ELSE IF prev # NoneVertex
    THEN IF mapping[prev.identifier] = Absent
         THEN [raised |-> KeyError, current_vertex |-> cur,
               previous_vertex |-> prev]
         ELSE LET r == find_path(mapping[prev.identifier],
                                 get_adjacent(ns, es, prev))
              IN IF r.raised # None
                 THEN [raised |-> r.raised, current_vertex |-> cur,
                       previous_vertex |-> prev]
                 ELSE IF r.go_to = NoneVertex
                 THEN [raised |-> StopIteration, current_vertex |-> NoneVertex,
                       previous_vertex |-> prev]
                 ELSE [raised |-> None, current_vertex |-> r.go_to,
                       previous_vertex |-> prev]
    ELSE [raised |-> None, current_vertex |-> cur, previous_vertex |-> cur]

\* a __next__ that ends the iteration when find_path raises
PrompterIterator_next_error_ends(ns, es, cur, prev, mapping) ==
    IF cur = NoneVertex
    THEN [raised |-> StopIteration, current_vertex |-> cur,
          previous_vertex |-> prev]
    ELSE IF prev # NoneVertex
    THEN IF mapping[prev.identifier] = Absent
         THEN [raised |-> KeyError, current_vertex |-> cur,
               previous_vertex |-> prev]
         ELSE LET r == find_path(mapping[prev.identifier],
                                 get_adjacent(ns, es, prev))
              IN IF r.raised # None \/ r.go_to = NoneVertex
                 THEN [raised |-> StopIteration, current_vertex |-> NoneVertex,
                       previous_vertex |-> prev]
                 ELSE [raised |-> None, current_vertex |-> r.go_to,
                       previous_vertex |-> r.go_to]
    ELSE [raised |-> None, current_vertex |-> cur, previous_vertex |-> cur]

\* a __next__ that raises StopIteration when no edge matches and leaves
\* current_vertex what it was
PrompterIterator_next_without_terminal(ns, es, cur, prev, mapping) ==
    IF cur = NoneVertex
    THEN [raised |-> StopIteration, current_vertex |-> cur,
          previous_vertex |-> prev]
    ELSE IF prev # NoneVertex
    THEN IF mapping[prev.identifier] = Absent
         THEN [raised |-> KeyError, current_vertex |-> cur,
               previous_vertex |-> prev]
         ELSE LET r == find_path(mapping[prev.identifier],
                                 get_adjacent(ns, es, prev))
              IN IF r.raised # None
                 THEN [raised |-> r.raised, current_vertex |-> cur,
                       previous_vertex |-> prev]
                 ELSE IF r.go_to = NoneVertex
                 THEN [raised |-> StopIteration, current_vertex |-> cur,
                       previous_vertex |-> prev]
                 ELSE [raised |-> None, current_vertex |-> r.go_to,
                       previous_vertex |-> r.go_to]
    ELSE [raised |-> None, current_vertex |-> cur, previous_vertex |-> cur]

\* __next__ from the state (cur, prev): the state it leaves and what it
\* raises; when it raises nothing it yields the Prompter of current_vertex
PrompterIterator_next(ns, es, cur, prev, mapping) ==
    IF cur = NoneVertex
    THEN [raised |-> StopIteration, current_vertex |-> cur,
          previous_vertex |-> prev]
    ELSE IF prev # NoneVertex
    THEN IF mapping[prev.identifier] = Absent
         THEN [raised |-> KeyError, current_vertex |-> cur,
               previous_vertex |-> prev]
         ELSE LET r == find_path(mapping[prev.identifier],
                                 get_adjacent(ns, es, prev))
              IN IF r.raised # None
                 THEN [raised |-> r.raised, current_vertex |-> cur,
                       previous_vertex |-> prev]
                 ELSE IF r.go_to = NoneVertex
                 THEN [raised |-> StopIteration, current_vertex |-> NoneVertex,
                       previous_vertex |-> prev]
                 ELSE [raised |-> None, current_vertex |-> r.go_to,
                       previous_vertex |-> r.go_to]
    ELSE [raised |-> None, current_vertex |-> cur, previous_vertex |-> cur]

\* a context entry that has no 'auto_input' key, and the value None
NoAutoInput == [type |-> "no auto_input", val |-> 0]
NoneValue == [type |-> "none", val |-> 0]

\* a _context_supplied that never finds an answer in the context
Prompter_context_supplied_ignored(ctx, identifier) == NoneValue

\* Prompter._context_supplied: the 'auto_input' of the context entry of the
\* identifier, None without an entry or without that key
Prompter_context_supplied(ctx, identifier) ==
    IF ctx[identifier] # Absent
    THEN IF ctx[identifier] # NoAutoInput
         THEN ctx[identifier]
         ELSE NoneValue
    ELSE NoneValue

\* Prompter.prompt: the input gathered for the vertex goes under its identifier
Prompter_prompt(mapping, vertex, gathered_input) ==
    [mapping EXCEPT ![vertex.identifier] = gathered_input]

(***************************************************************************)
(* The iterators' calls                                                    *)
(***************************************************************************)
Outcome(op, raised, vertex) == [op |-> op, raised |-> raised, vertex |-> vertex]

\* an iter that leaves an iterator that was started where it is
PIter_without_reset ==
    /\ mode = "prompter"
    /\ LET r == PrompterIterator_iter(root)
       IN /\ outcome' = Outcome("iter", r.raised, NoneVertex)
          /\ IF r.raised # None \/ started
             THEN UNCHANGED <<started, current_vertex, previous_vertex,
                              pending, yielded>>
             ELSE /\ started' = TRUE
                  /\ current_vertex' = r.current_vertex
                  /\ previous_vertex' = r.previous_vertex
                  /\ pending' = NoneVertex
                  /\ yielded' = <<>>
    /\ UNCHANGED <<gvars, call, fvars, mode, input_mapping, queue, visited,
                   context, asked, adjacent, evars, its>>

\* iter(PrompterIterator)
PIter ==
    /\ mode = "prompter"
    /\ LET r == PrompterIterator_iter(root)
       IN /\ outcome' = Outcome("iter", r.raised, NoneVertex)
          /\ IF r.raised # None
             THEN UNCHANGED <<started, current_vertex, previous_vertex,
                              pending, yielded>>
             ELSE /\ started' = TRUE
                  /\ current_vertex' = r.current_vertex
                  /\ previous_vertex' = r.previous_vertex
                  /\ pending' = NoneVertex
                  /\ yielded' = <<>>
    /\ UNCHANGED <<gvars, call, fvars, mode, input_mapping, queue, visited,
                   context, asked, adjacent, evars, its>>

\* next(PrompterIterator)
PNext ==
    /\ mode = "prompter"
    /\ Len(yielded) < MaxSteps
    /\ IF ~started
       THEN /\ outcome' = Outcome("next", AttributeError, NoneVertex)
            /\ UNCHANGED <<current_vertex, previous_vertex, pending, yielded>>
       ELSE LET r == PrompterIterator_next(nodes, edges, current_vertex,
                                           previous_vertex, input_mapping)
            IN /\ current_vertex' = r.current_vertex
               /\ previous_vertex' = r.previous_vertex
               /\ IF r.raised = None
                  THEN /\ outcome' = Outcome("next", None, r.current_vertex)
                       /\ yielded' = Append(yielded, r.current_vertex)
                       /\ pending' = r.current_vertex
                  ELSE /\ outcome' = Outcome("next", r.raised, NoneVertex)
                       /\ UNCHANGED <<yielded, pending>>
    /\ UNCHANGED <<gvars, call, fvars, mode, started, input_mapping, queue,
                   visited, context, asked, adjacent, evars, its>>

\* the answers read_user_variable returns: "a" and "x"
WalkAnswers == {StrA, StrX}

\* Prompter.prompt on the Prompter yielded last
Prompt ==
    /\ mode = "prompter"
    /\ pending # NoneVertex
    /\ LET context_supplied_val ==
               Prompter_context_supplied(context, pending.identifier)
       IN IF context_supplied_val # NoneValue
          THEN /\ asked' = <<>>
               /\ input_mapping' = Prompter_prompt(input_mapping, pending,
                                                   context_supplied_val)
          ELSE \E read_user_variable \in WalkAnswers :
                  /\ asked' = <<read_user_variable>>
                  /\ input_mapping' = Prompter_prompt(input_mapping, pending,
                                                      read_user_variable)
    /\ pending' = NoneVertex
    /\ outcome' = Outcome("prompt", None, pending)
    /\ UNCHANGED <<gvars, call, fvars, mode, started, current_vertex,
                   previous_vertex, queue, visited, yielded,
                   context, adjacent, evars, its>>

\* prompt() once more on the Prompter yielded last, after next has raised
\* AmbiguousPath or StopIteration; outcome stays what that next call raised
Reprompt ==
    /\ mode = "prompter"
    /\ pending = NoneVertex
    /\ yielded # <<>>
    /\ outcome.op = "next"
    /\ outcome.raised \in {AmbiguousPath, StopIteration}
    /\ LET vertex == yielded[Len(yielded)]
           context_supplied_val ==
               Prompter_context_supplied(context, vertex.identifier)
       IN IF context_supplied_val # NoneValue
          THEN /\ asked' = <<>>
               /\ input_mapping' = Prompter_prompt(input_mapping, vertex,
                                                   context_supplied_val)
          ELSE \E read_user_variable \in WalkAnswers :
                  /\ asked' = <<read_user_variable>>
                  /\ input_mapping' = Prompter_prompt(input_mapping, vertex,
                                                      read_user_variable)
    /\ UNCHANGED <<gvars, call, fvars, mode, started, current_vertex,
                   previous_vertex, pending, queue, visited, yielded, outcome,
                   context, adjacent, evars, its>>

\* graph.get_adjacent(v) by the caller, for a vertex of the graph or the
\* vertex MaxVertices + 1 that is not in it
GetAdjacent ==
    /\ mode = "adjacent"
    /\ \E v \in {V(k) : k \in 1..(MaxVertices + 1)} :
          /\ adjacent' = get_adjacent(nodes, edges, v)
          /\ nodes' = get_adjacent_nodes(nodes, edges, v)
          /\ outcome' = Outcome("get_adjacent", None, v)
    /\ UNCHANGED <<edges, root, call, fvars, mode, started, current_vertex,
                   previous_vertex, input_mapping, pending, queue, visited,
                   yielded, context, asked, evars, its>>

\* iter(BFSIterator), once per iterator
BFSIter ==
    /\ mode = "bfs"
    /\ ~started
    /\ LET r == BFSIterator_iter(root)
       IN /\ outcome' = Outcome("iter", r.raised, NoneVertex)
          /\ IF r.raised # None
             THEN UNCHANGED <<started, queue>>
             ELSE started' = TRUE /\ queue' = r.queue
    /\ UNCHANGED <<gvars, call, fvars, mode, current_vertex, previous_vertex,
                   input_mapping, pending, visited, yielded,
                   context, asked, adjacent, evars, its>>

\* next(BFSIterator)
BFSNext ==
    /\ mode = "bfs"
    /\ Len(yielded) < MaxSteps
    /\ IF ~started
       THEN /\ outcome' = Outcome("next", AttributeError, NoneVertex)
            /\ UNCHANGED <<queue, visited, yielded>>
       ELSE LET r == BFSIterator_next(nodes, edges, queue, visited)
            IN /\ queue' = r.queue
               /\ visited' = r.visited
               /\ outcome' = Outcome("next", r.raised, r.vertex)
               /\ yielded' = IF r.raised = None
                             THEN Append(yielded, r.vertex)
                             ELSE yielded
    /\ UNCHANGED <<gvars, call, fvars, mode, started, current_vertex,
                   previous_vertex, input_mapping, pending,
                   context, asked, adjacent, evars, its>>

(***************************************************************************)
(* Specification of the graph construction                                 *)
(***************************************************************************)
NotCalled == Raised("not called")

InitFindPathIdle ==
    /\ value = Int_(0)
    /\ vertices = <<>>
    /\ found = NotCalled

NoOutcome == [op |-> "none", raised |-> None, vertex |-> NoneVertex]

InitIteratorIdle ==
    /\ mode = "prompter"
    /\ started = FALSE
    /\ current_vertex = NoneVertex
    /\ previous_vertex = NoneVertex
    /\ input_mapping = [k \in 1..MaxVertices |-> Absent]
    /\ pending = NoneVertex
    /\ queue = <<>>
    /\ visited = {}
    /\ yielded = <<>>
    /\ outcome = NoOutcome

\* an iterator before __iter__, with an empty dict
NewIterator ==
    [started |-> FALSE, current_vertex |-> NoneVertex,
     previous_vertex |-> NoneVertex,
     input_mapping |-> [k \in 1..MaxId |-> Absent],
     pending |-> NoneVertex, yielded |-> <<>>, script |-> <<>>,
     raised |-> None]

NotEvaluated == [raised |-> "not called", value |-> FALSE]

\* no evaluate call
InitEvaluateIdle ==
    /\ ev_condition = DefaultCondition
    /\ ev_input = Int_(0)
    /\ ev_result = NotEvaluated

\* Prompters with an empty context, none of them prompted
InitContextIdle ==
    /\ context = [k \in 1..MaxVertices |-> Absent]
    /\ asked = <<>>

\* no further iterators
InitPairIdle == its = <<>>

\* no context, no get_adjacent call, no evaluate call, no second iterator
InitRestIdle ==
    /\ InitContextIdle
    /\ adjacent = <<>>
    /\ InitEvaluateIdle
    /\ InitPairIdle

InitBuild ==
    InitGraph /\ call = NoCall /\ InitFindPathIdle /\ InitIteratorIdle
              /\ InitRestIdle

NextBuild == AddVertex \/ AddEdge

SpecBuild == InitBuild /\ [][NextBuild]_vars

(***************************************************************************)
(* Specification of find_path as a function of its arguments               *)
(***************************************************************************)
SeqsUpTo(S, n) == UNION {[1..k -> S] : k \in 0..n}

\* the answers "a", "b", "z" and 5
Answers == {StrA, StrB, StrZ, Int5}

\* TRUE, $input == a, $input == b, $input < 10, $input >= 0
Conditions ==
    {DefaultCondition,
     ComparisonCondition("==", StrA),
     ComparisonCondition("==", StrB),
     ComparisonCondition("<", Int_(10)),
     ComparisonCondition(">=", Int_(0))}

\* the destinations B, C, D
Destinations == {V(2), V(3), V(4)}

InitFindPath ==
    /\ InitGraph
    /\ call = NoCall
    /\ value \in Answers
    /\ vertices \in SeqsUpTo([vertex : Destinations, condition : Conditions],
                              MaxAdj)
    /\ found = NotCalled
    /\ InitIteratorIdle
    /\ InitRestIdle

Resolve ==
    /\ found = NotCalled
    /\ found' = find_path(value, vertices)
    /\ UNCHANGED <<nodes, edges, root, call, value, vertices, ivars,
                   context, asked, adjacent, evars, its>>

NextFindPath == Resolve

SpecFindPath == InitFindPath /\ [][NextFindPath]_vars

(***************************************************************************)
(* Specification of Condition.evaluate: one call on any condition and any  *)
(* input                                                                   *)
(***************************************************************************)
EvalValues ==
    {Int_(n) : n \in 0..MaxVal} \cup {Str_(StrA.val + n) : n \in 0..MaxVal}

EvalConditions ==
    {DefaultCondition}
        \cup {ComparisonCondition(op, c) : op \in Operator, c \in EvalValues}

InitEvaluate ==
    /\ InitGraph
    /\ call = NoCall
    /\ InitFindPathIdle
    /\ InitIteratorIdle
    /\ InitContextIdle
    /\ adjacent = <<>>
    /\ InitPairIdle
    /\ ev_condition \in EvalConditions
    /\ ev_input \in EvalValues
    /\ ev_result = NotEvaluated

\* condition.evaluate(input_data)
Evaluate ==
    /\ ev_result = NotEvaluated
    /\ ev_result' = evaluate(ev_input, ev_condition)
    /\ UNCHANGED <<gvars, call, fvars, ivars, context, asked, adjacent,
                   ev_condition, ev_input, its>>

NextEvaluate == Evaluate

SpecEvaluate == InitEvaluate /\ [][NextEvaluate]_vars

(***************************************************************************)
(* Specification of Prompter.prompt: one Prompter of any vertex, over any  *)
(* context and any result mapping, is prompted                             *)
(***************************************************************************)
\* answers a context supplies: the string "b" and the int 0
AutoInputs == {StrB, Int_(0)}

ContextEntries == {Absent, NoAutoInput, NoneValue} \cup AutoInputs

InitPrompt ==
    /\ InitGraph
    /\ call = NoCall
    /\ InitFindPathIdle
    /\ mode = "prompter"
    /\ started = FALSE
    /\ current_vertex = NoneVertex
    /\ previous_vertex = NoneVertex
    /\ input_mapping \in [1..MaxVertices -> {Absent, StrX}]
    /\ pending \in {V(k) : k \in 1..MaxVertices}
    /\ queue = <<>>
    /\ visited = {}
    /\ yielded = <<>>
    /\ outcome = NoOutcome
    /\ context \in [1..MaxVertices -> ContextEntries]
    /\ asked = <<>>
    /\ adjacent = <<>>
    /\ InitEvaluateIdle
    /\ InitPairIdle

NextPrompt == Prompt

SpecPrompt == InitPrompt /\ [][NextPrompt]_vars

(***************************************************************************)
(* Specification of the iterators over a graph that was built              *)
(***************************************************************************)
\* TRUE and $input == a
WalkConditions == {DefaultCondition, ComparisonCondition("==", StrA)}

WalkVertices == {V(k) : k \in 1..MaxVertices}

\* the edge lists add_edge can have built: at most one default per source
WalkGraphs ==
    {es \in SeqsUpTo([source : WalkVertices, destination : WalkVertices,
                      condition : WalkConditions], MaxWalkEdges) :
        \A v \in WalkVertices :
            Cardinality({i \in 1..Len(es) :
                es[i].source = v /\ es[i].condition.kind = "default"}) <= 1}

Init ==
    /\ edges \in WalkGraphs
    /\ root \in {NoneObj, <<1, 0>>}
    /\ nodes = {edges[i].source : i \in 1..Len(edges)}
               \cup {edges[i].destination : i \in 1..Len(edges)}
               \cup (IF root = NoneObj THEN {} ELSE {Deref(root)})
    /\ call = NoCall
    /\ InitFindPathIdle
    /\ mode \in {"prompter", "bfs"}
    /\ started = FALSE
    /\ current_vertex = NoneVertex
    /\ previous_vertex = NoneVertex
    /\ input_mapping = [k \in 1..MaxVertices |-> Absent]
    /\ pending = NoneVertex
    /\ queue = <<>>
    /\ visited = {}
    /\ yielded = <<>>
    /\ outcome = NoOutcome
    /\ InitRestIdle

Next == PIter \/ PNext \/ Prompt \/ BFSIter \/ BFSNext

Spec == Init /\ [][Next]_vars

(***************************************************************************)
(* Specification of two PrompterIterators over one graph, each with its    *)
(* own result mapping, called in any interleaving. Each is driven as a     *)
(* for loop drives it: iter, then next and prompt in turn until next       *)
(* raises.                                                                 *)
(***************************************************************************)
NextCall == [op |-> "next", answer |-> Absent]
PromptCall(gathered_input) == [op |-> "prompt", answer |-> gathered_input]

\* the iterator `it` after iter(it) on a graph with root r
IteratorIter(it, r) ==
    LET res == PrompterIterator_iter(r)
    IN [it EXCEPT !.started = (res.raised = None),
                  !.current_vertex = res.current_vertex,
                  !.previous_vertex = res.previous_vertex,
                  !.raised = res.raised]

\* the iterator `it` after next(it), or after prompt() on the Prompter it
\* yielded last
IteratorStep(it, c) ==
    IF c.op = "next"
    THEN LET res == PrompterIterator_next(nodes, edges, it.current_vertex,
                                          it.previous_vertex, it.input_mapping)
         IN [it EXCEPT !.current_vertex = res.current_vertex,
                       !.previous_vertex = res.previous_vertex,
                       !.raised = res.raised,
                       !.yielded = IF res.raised = None
                                   THEN Append(@, res.current_vertex)
                                   ELSE @,
                       !.pending = IF res.raised = None
                                   THEN res.current_vertex
                                   ELSE @,
                       !.script = Append(@, c)]
    ELSE [it EXCEPT !.input_mapping = Prompter_prompt(@, it.pending, c.answer),
                    !.pending = NoneVertex,
                    !.script = Append(@, c)]

\* iter(its[i])
Iter2(i) ==
    /\ mode = "pair"
    /\ ~its[i].started
    /\ its' = [its EXCEPT ![i] = IteratorIter(@, root)]
    /\ UNCHANGED <<gvars, call, fvars, ivars, context, asked, adjacent, evars>>

\* next(its[i]); the loop ends when next raises
Next2(i) ==
    /\ mode = "pair"
    /\ its[i].started
    /\ its[i].raised = None
    /\ its[i].pending = NoneVertex
    /\ Len(its[i].yielded) <= MaxId
    /\ its' = [its EXCEPT ![i] = IteratorStep(@, NextCall)]
    /\ UNCHANGED <<gvars, call, fvars, ivars, context, asked, adjacent, evars>>

\* the user of the first iterator answers "a" to every prompt, the user of
\* the second one "x"
PairAnswers(i) == IF i = 1 THEN {StrA} ELSE {StrX}

\* a prompt that records the answer in the dicts of both iterators
Prompt2_one_dict(i) ==
    /\ mode = "pair"
    /\ its[i].pending # NoneVertex
    /\ \E read_user_variable \in PairAnswers(i) :
          its' = [j \in {1, 2} |->
                     IF j = i
                     THEN IteratorStep(its[j], PromptCall(read_user_variable))
                     ELSE [its[j] EXCEPT !.input_mapping =
                              Prompter_prompt(@, its[i].pending,
                                              read_user_variable)]]
    /\ UNCHANGED <<gvars, call, fvars, ivars, context, asked, adjacent, evars>>

\* prompt() on the Prompter its[i] yielded last; the context is empty
Prompt2(i) ==
    /\ mode = "pair"
    /\ its[i].pending # NoneVertex
    /\ Prompter_context_supplied(context, its[i].pending.identifier) = NoneValue
    /\ \E read_user_variable \in PairAnswers(i) :
          its' = [its EXCEPT ![i] =
                     IteratorStep(@, PromptCall(read_user_variable))]
    /\ UNCHANGED <<gvars, call, fvars, ivars, context, asked, adjacent, evars>>

PairVertices == {V(k) : k \in 1..MaxId}

\* the edge lists add_edge can have built: at most one default per source
PairGraphs ==
    {es \in SeqsUpTo([source : PairVertices, destination : PairVertices,
                      condition : WalkConditions], MaxEdges) :
        \A v \in PairVertices :
            Cardinality({i \in 1..Len(es) :
                es[i].source = v /\ es[i].condition.kind = "default"}) <= 1}

InitPair ==
    /\ edges \in PairGraphs
    /\ root = <<1, 0>>
    /\ nodes = {edges[i].source : i \in 1..Len(edges)}
               \cup {edges[i].destination : i \in 1..Len(edges)}
               \cup {Deref(root)}
    /\ call = NoCall
    /\ InitFindPathIdle
    /\ mode = "pair"
    /\ started = FALSE
    /\ current_vertex = NoneVertex
    /\ previous_vertex = NoneVertex
    /\ input_mapping = [k \in 1..MaxVertices |-> Absent]
    /\ pending = NoneVertex
    /\ queue = <<>>
    /\ visited = {}
    /\ yielded = <<>>
    /\ outcome = NoOutcome
    /\ InitContextIdle
    /\ adjacent = <<>>
    /\ InitEvaluateIdle
    /\ its = [i \in {1, 2} |-> NewIterator]

NextPair == \E i \in {1, 2} : Iter2(i) \/ Next2(i) \/ Prompt2(i)

SpecPair == InitPair /\ [][NextPair]_vars

(***************************************************************************)
(* Specification of every call a caller can make on a graph that was       *)
(* built, over the graphs of up to MaxEdges edges between MaxId vertices:  *)
(* the two iterators, prompt() on a Prompter once more after the walk has  *)
(* raised, and get_adjacent                                                *)
(***************************************************************************)
InitCalls ==
    /\ edges \in PairGraphs
    /\ root = <<1, 0>>
    /\ nodes = {edges[i].source : i \in 1..Len(edges)}
               \cup {edges[i].destination : i \in 1..Len(edges)}
               \cup {Deref(root)}
    /\ call = NoCall
    /\ InitFindPathIdle
    /\ mode \in {"prompter", "bfs", "adjacent"}
    /\ started = FALSE
    /\ current_vertex = NoneVertex
    /\ previous_vertex = NoneVertex
    /\ input_mapping = [k \in 1..MaxVertices |-> Absent]
    /\ pending = NoneVertex
    /\ queue = <<>>
    /\ visited = {}
    /\ yielded = <<>>
    /\ outcome = NoOutcome
    /\ InitRestIdle

NextCalls == Next \/ Reprompt \/ GetAdjacent

SpecCalls == InitCalls /\ [][NextCalls]_vars

(***************************************************************************)
(* Properties of find_path (SpecFindPath)                                  *)
(***************************************************************************)
\* the indices of the edges whose condition evaluates to True
Matching(val, vs) ==
    {i \in 1..Len(vs) : evaluate(val, vs[i].condition) = Returned(TRUE)}

\* no condition of the list raises on the answer
Evaluable(val, vs) ==
    \A i \in 1..Len(vs) : evaluate(val, vs[i].condition).raised = "no"

Orderings(n) ==
    {p \in [1..n -> 1..n] : \A i, j \in 1..n : p[i] = p[j] => i = j}

Reordered(vs, p) == [i \in 1..Len(vs) |-> vs[p[i]]]

\* what the resolver is to return by the number of matching edges, and the
\* same for every ordering of the list
ResolvedByCount(val, vs, res) ==
    LET m == Matching(val, vs)
    IN /\ Cardinality(m) = 1 =>
             res = Found(vs[CHOOSE i \in m : TRUE].vertex)
       /\ Cardinality(m) = 0 => res = Found(NoneVertex)
       /\ Cardinality(m) >= 2 => res = Raised(AmbiguousPath)
       /\ \A p \in Orderings(Len(vs)) :
             find_path(val, Reordered(vs, p)) = res

\* the edges [(== "a") -> B, (== "b") -> C, TRUE -> D]
DefaultExample ==
    <<AdjacentVertex(V(2), ComparisonCondition("==", StrA)),
      AdjacentVertex(V(3), ComparisonCondition("==", StrB)),
      AdjacentVertex(V(4), DefaultCondition)>>

\* C1: with comparison edges and one default edge, find_path returns the
\* destination of the comparison edge that matches the answer, and the
\* default edge's destination only when no comparison edge matches; on
\* [(== "a") -> B, (== "b") -> C, TRUE -> D] the answers "a", "b", "z"
\* resolve to B, C, D and none raises
C1_DefaultEdgeIsFallback ==
    (found # NotCalled /\ vertices = DefaultExample
       /\ value \in {StrA, StrB, StrZ}) =>
        /\ found.raised = None
        /\ value = StrA => found.go_to = V(2)
        /\ value = StrB => found.go_to = V(3)
        /\ value = StrZ => found.go_to = V(4)

\* C2 as stated: for every answer and every list of edges, find_path returns
\* the one matching destination, None when nothing matches, raises
\* "ambiguous paths" when two or more match, whatever the order of the list
C2_ResolvedByCount_AnyList ==
    found # NotCalled => ResolvedByCount(value, vertices, found)

\* C2 amended: the same, for the lists all of whose conditions can be
\* evaluated on the answer without a TypeError
C2_ResolvedByCount ==
    (found # NotCalled /\ Evaluable(value, vertices)) =>
        ResolvedByCount(value, vertices, found)

\* an ambiguity that a first-match resolver would miss: three edges, the
\* first and the last of them match
C2_Witness ==
    /\ found = Raised(AmbiguousPath)
    /\ Len(vertices) = 3
    /\ Matching(value, vertices) = {1, 3}
    /\ vertices[1].vertex # vertices[3].vertex

(***************************************************************************)
(* Properties of the graph construction (SpecBuild)                        *)
(***************************************************************************)
\* the number of default out-edges of a vertex
DefaultPaths(es, v) ==
    Cardinality({i \in 1..Len(es) :
        Vertex_eq(es[i].source, v) /\ es[i].condition.kind = "default"})

\* the step is an add_edge call with source s, a default condition and the
\* root flag isroot
DefaultEdgeCall(s, isroot) ==
    \E d \in DestObjs : add_edge(s, d, DefaultCondition, isroot)

\* the step is an add_vertex or add_edge call that designates o as root
RootCall(o) ==
    \/ add_vertex(o, TRUE)
    \/ \E d \in DestObjs, c \in BuildConditions : add_edge(o, d, c, TRUE)

\* C4: an add_edge with a default condition from a source that already has
\* a default out-edge raises the duplicate-default error and leaves nodes,
\* edges and root as they were, whatever the other arguments
C4_DuplicateDefaultChangesNothing ==
    [][\A s \in Objs, isroot \in BOOLEAN :
          (DefaultPaths(edges, Deref(s)) >= 1 /\ DefaultEdgeCall(s, isroot))
          => (call'.raised = DuplicateDefaultPath /\ UNCHANGED gvars)]_vars

\* C6: once set the root never changes, and a call that designates a
\* vertex different from the root raises the root-conflict error and
\* leaves nodes, edges and root as they were
C6_RootIsFixed ==
    [][/\ root # NoneObj => root' = root
       /\ \/ call'.raised = RootConflict /\ UNCHANGED gvars
          \/ \A o \in Objs :
                ~(/\ root # NoneObj
                  /\ ~Vertex_eq(Deref(o), Deref(root))
                  /\ RootCall(o))]_vars

\* a root was refused on a graph with edges whose root is another vertex
C6_Witness ==
    /\ call.raised = RootConflict
    /\ root = <<1, 0>>
    /\ Len(edges) >= 1
    /\ Cardinality(nodes) >= 2

\* C7: designating as root a vertex equal to the root (same identifier and
\* prompt) raises nothing and leaves the root unchanged
C7_SameRootIsIdempotent ==
    [][\A o \in Objs :
          (/\ root # NoneObj
           /\ Vertex_eq(Deref(o), Deref(root))
           /\ RootCall(o))
          => (call'.raised = None /\ root' = root)]_vars

\* C8: every vertex has at most one default out-edge
C8_AtMostOneDefaultPath ==
    \A v \in nodes : DefaultPaths(edges, v) <= 1

\* a second default edge was refused on a vertex that has a default edge
\* and a comparison edge
C8_Witness ==
    /\ call.raised = DuplicateDefaultPath
    /\ Len(edges) = 2
    /\ \E v \in nodes :
          /\ DefaultPaths(edges, v) = 1
          /\ \A i \in 1..2 : edges[i].source = v

(***************************************************************************)
(* Properties of the iterators (Spec)                                      *)
(***************************************************************************)
Successors(es, v) ==
    {es[i].destination : i \in {j \in 1..Len(es) : es[j].source = v}}

RECURSIVE Closure(_, _)
Closure(es, S) ==
    LET T == S \cup UNION {Successors(es, v) : v \in S}
    IN IF T = S THEN S ELSE Closure(es, T)

\* the vertices reachable from r, r included
Reachable(es, r) == Closure(es, {r})

\* no cycle among the vertices reachable from r
Acyclic(es, r) ==
    \A v \in Reachable(es, r) : v \notin Closure(es, Successors(es, v))

NoDuplicates(seq) ==
    \A i, j \in 1..Len(seq) : seq[i] = seq[j] => i = j

Range(seq) == {seq[i] : i \in 1..Len(seq)}

\* the identifiers that have an answer in the result mapping
Recorded == {k \in DOMAIN input_mapping : input_mapping[k] # Absent}

\* C3: the breadth-first enumeration yields no vertex twice, and when it
\* ends it has yielded every vertex reachable from the root
C3_BFSYieldsReachableOnce ==
    (mode = "bfs" /\ root # NoneObj) =>
        /\ NoDuplicates(yielded)
        /\ outcome = Outcome("next", StopIteration, NoneVertex) =>
              Range(yielded) = Reachable(edges, Deref(root))

\* the chain root -> mid -> leaf, both edges TRUE
Chain ==
    <<Edge(V(1), V(2), DefaultCondition), Edge(V(2), V(3), DefaultCondition)>>

\* the walk over the chain has ended and every answer given was "x"
ChainWalkedWithX ==
    /\ mode = "prompter"
    /\ edges = Chain
    /\ root = <<1, 0>>
    /\ outcome = Outcome("next", StopIteration, NoneVertex)
    /\ \A k \in Recorded : input_mapping[k] = StrX

\* C5 as stated: the walk over the chain with every answer "x" ends with
\* the answers of root and mid, and no other, in the result mapping
C5_ChainRecordsRootAndMid ==
    ChainWalkedWithX => Recorded = {1, 2}

\* C5 amended: it ends with the answers of root, mid and leaf in the result
\* mapping, all three vertices having been yielded in this order
C5_ChainRecordsRootMidLeaf ==
    ChainWalkedWithX =>
        /\ Recorded = {1, 2, 3}
        /\ yielded = <<V(1), V(2), V(3)>>

C5_Witness ==
    /\ ChainWalkedWithX
    /\ input_mapping[3] = StrX

\* C9: on a graph without a root, iter raises "no root exists", no vertex
\* is ever yielded and no answer is asked for or recorded
C9_NoRootRaises ==
    root = NoneObj =>
        /\ outcome.op = "iter" => outcome.raised = NoRoot
        /\ outcome.op # "prompt"
        /\ ~started
        /\ yielded = <<>>
        /\ pending = NoneVertex
        /\ Recorded = {}

C9_Witness ==
    /\ root = NoneObj
    /\ Len(edges) >= 1
    /\ mode = "prompter"
    /\ outcome = Outcome("iter", NoRoot, NoneVertex)

\* the walk is input-driven and what is reachable from the root has no cycle
AcyclicWalk ==
    /\ mode = "prompter"
    /\ root # NoneObj
    /\ Acyclic(edges, Deref(root))

\* C10 as stated: on an acyclic graph the walk yields no vertex twice and
\* no more vertices than are reachable, and every step that finds an answer
\* for the vertex it leaves yields a vertex or ends the walk in Terminal
C10_AcyclicWalkReachesTerminal ==
    AcyclicWalk =>
        /\ NoDuplicates(yielded)
        /\ Len(yielded) <= Cardinality(Reachable(edges, Deref(root)))
        /\ (outcome.op = "next" /\ started /\ outcome.raised # KeyError) =>
              outcome.raised \in {None, StopIteration}

\* C10 amended: on an acyclic graph the walk yields no vertex twice and no
\* more vertices than are reachable, and every such step yields a vertex,
\* ends the walk in Terminal or aborts it with the error the resolution
\* raised ("ambiguous paths", or the TypeError of a comparison)
C10_AcyclicWalkIsFinite ==
    AcyclicWalk =>
        /\ NoDuplicates(yielded)
        /\ Range(yielded) \subseteq Reachable(edges, Deref(root))
        /\ Len(yielded) <= Cardinality(Reachable(edges, Deref(root)))
        /\ (outcome.op = "next" /\ started /\ outcome.raised # KeyError) =>
              outcome.raised \in {None, StopIteration, AmbiguousPath,
                                    TypeError.raised}

\* a walk over three vertices that ended in Terminal
C10_Witness ==
    /\ AcyclicWalk
    /\ Len(yielded) = 3
    /\ outcome = Outcome("next", StopIteration, NoneVertex)

\* C11: the breadth-first enumeration of a graph with a root ends after at
\* most as many yields as the graph has vertices, cycles, self-loops and
\* parallel edges included: every yield marks an identifier that was not
\* marked before, and once every vertex is marked the next call raises
\* StopIteration, however long the queue of marked vertices is
C11_BFSEndsWithinVertexCount ==
    (mode = "bfs" /\ root # NoneObj) =>
        /\ Len(yielded) <= Cardinality(visited)
        /\ Cardinality(visited) <= Cardinality(nodes)
        /\ Len(yielded) <= Cardinality(nodes)
        /\ (started /\ Cardinality(visited) = Cardinality(nodes)) =>
              BFSIterator_next(nodes, edges, queue, visited).raised
                  = StopIteration
        /\ outcome.raised = StopIteration => queue = <<>>

\* the enumeration of a graph with a cycle has ended, the queue having held
\* vertices already marked
C11_Witness ==
    /\ mode = "bfs"
    /\ root # NoneObj
    /\ ~Acyclic(edges, Deref(root))
    /\ Len(edges) = MaxWalkEdges
    /\ Len(yielded) >= 2
    /\ outcome = Outcome("next", StopIteration, NoneVertex)

\* C12: a comparison between an input and an operand of different types is
\* an error for each of the six operators: evaluate raises instead of
\* returning true or false
C12_MixedTypesRaise ==
    (/\ ev_result # NotEvaluated
     /\ ev_condition.kind = "comparison"
     /\ ev_input.type # ev_condition.compare_to.type)
        => ev_result = TypeError

\* how many times x occurs in seq
Count(x, seq) == Cardinality({i \in 1..Len(seq) : seq[i] = x})

SameMultiset(s, t) ==
    /\ Len(s) = Len(t)
    /\ \A x \in Range(s) \cup Range(t) : Count(x, s) = Count(x, t)

\* one (destination, condition) entry per edge added with source v, in the
\* order of the add_edge calls
EdgesAddedFrom(v) ==
    LET out == SelectSeq(edges, LAMBDA e : e.source = v)
    IN [i \in 1..Len(out) |-> [vertex |-> out[i].destination,
                               condition |-> out[i].condition]]

\* vertex MaxId + 1 is never handed to add_vertex or add_edge
NeverAdded == V(MaxId + 1)

\* C13: after any sequence of add_vertex and add_edge calls, get_adjacent(v)
\* returns one (destination, condition) entry per edge added with source v,
\* the same multiset with parallel edges kept apart, and the empty list for
\* a vertex without outgoing edges and for a vertex never added
C13_AdjacencyRoundTrip ==
    /\ \A k \in 1..MaxId :
          SameMultiset(get_adjacent(nodes, edges, V(k)), EdgesAddedFrom(V(k)))
    /\ get_adjacent(nodes, edges, NeverAdded) = <<>>
    /\ \A n \in nodes :
          (\A i \in 1..Len(edges) : edges[i].source # n)
              => get_adjacent(nodes, edges, n) = <<>>

\* two parallel edges with different conditions were added, to a vertex
\* that has no outgoing edge
C13_Witness ==
    /\ call = Call("add_edge", None)
    /\ Len(edges) = 2
    /\ edges[1].source = edges[2].source
    /\ edges[1].destination = edges[2].destination
    /\ edges[1].destination # edges[1].source
    /\ edges[1].condition # edges[2].condition
    /\ Len(get_adjacent(nodes, edges, edges[1].source)) = 2
    /\ get_adjacent(nodes, edges, edges[1].destination) = <<>>

\* C14: prompt on a vertex whose identifier has a pre-supplied answer in
\* the context records that answer and does not call the input provider;
\* without an entry for the identifier it calls the provider once and
\* records what the provider returned
C14_ContextTakesPrecedence ==
    outcome.op = "prompt" =>
        LET k == outcome.vertex.identifier
        IN /\ context[k] \in AutoInputs =>
                 (input_mapping[k] = context[k] /\ asked = <<>>)
           /\ context[k] = Absent =>
                 /\ Len(asked) = 1
                 /\ asked[1] \in WalkAnswers
                 /\ input_mapping[k] = asked[1]

\* the context supplied the int 0 for the vertex that was prompted, another
\* vertex has no entry
C14_Witness ==
    /\ outcome.op = "prompt"
    /\ context[outcome.vertex.identifier] = Int_(0)
    /\ input_mapping[outcome.vertex.identifier] = Int_(0)
    /\ asked = <<>>
    /\ \E k \in DOMAIN context : context[k] = Absent

\* C15: no step of the two traversals and no get_adjacent call, the one for
\* a vertex that is not in the graph included, changes the vertices, the
\* edges with their conditions or the root of the graph
C15_TraversalLeavesGraph ==
    [][nodes' = nodes /\ edges' = edges /\ root' = root]_vars

\* get_adjacent was called for a vertex that is not in the graph, which has
\* a root and edges
C15_Witness ==
    /\ mode = "adjacent"
    /\ outcome.op = "get_adjacent"
    /\ outcome.vertex \notin nodes
    /\ adjacent = <<>>
    /\ Len(edges) = MaxEdges

\* the iterator that made the calls of script on its own, from the state
\* `it` on
RECURSIVE AloneAfter(_, _)
AloneAfter(it, script) ==
    IF script = <<>>
    THEN it
    ELSE AloneAfter(IteratorStep(it, Head(script)), Tail(script))

\* the run of one iterator alone over the graph, given the same answers
Alone(script) == AloneAfter(IteratorIter(NewIterator, root), script)

C17_IterRestartsTheWalk ==
    [][/\ (mode = "prompter" /\ outcome.op = "iter" /\ outcome'.op = "next")
          => /\ outcome' = Outcome("next", None, Deref(root))
             /\ yielded' = <<Deref(root)>>
       /\ (/\ mode = "prompter"
           /\ outcome.op = "prompt"
           /\ current_vertex # NoneVertex
           /\ outcome'.op = "next"
           /\ outcome'.raised \in {None, StopIteration})
          => outcome'.vertex
                = find_path(asked[1],
                            get_adjacent(nodes, edges,
                                         yielded[Len(yielded)])).go_to]_vars

\* an earlier walk went from the root to vertex 2 and recorded an answer
\* there; the walk after iter yielded the root, was answered "x" and ended
C17_Witness ==
    /\ mode = "prompter"
    /\ yielded = <<Deref(root)>>
    /\ asked = <<StrX>>
    /\ outcome = Outcome("next", StopIteration, NoneVertex)
    /\ input_mapping[2] # Absent

\* C18: once a step of the walk has raised AmbiguousPath, no later step of
\* that walk yields a vertex, whatever was written to the result mapping
\* after the error
C18_AmbiguousPathEndsTheWalk ==
    [][(/\ mode = "prompter"
        /\ outcome = Outcome("next", AmbiguousPath, NoneVertex)
        /\ PNext)
          => outcome'.raised # None]_vars

\* the edges of the graph that leave v and whose condition matches answer
MatchingEdges(v, answer) ==
    {i \in 1..Len(edges) :
        /\ edges[i].source = v
        /\ evaluate(answer, edges[i].condition) = Returned(TRUE)}

C20_TerminalIsAbsorbing ==
    [][PNext =>
          /\ (started /\ outcome'.raised = StopIteration)
                => current_vertex' = NoneVertex
          /\ (started /\ current_vertex = NoneVertex)
                => /\ outcome' = Outcome("next", StopIteration, NoneVertex)
                   /\ current_vertex' = NoneVertex
                   /\ UNCHANGED <<yielded, input_mapping, gvars>>]_vars

\* the walk has ended, and the answer of the vertex yielded last was then
\* changed to one that an edge of that vertex matches
C20_Witness ==
    /\ mode = "prompter"
    /\ started
    /\ current_vertex = NoneVertex
    /\ outcome = Outcome("next", StopIteration, NoneVertex)
    /\ yielded # <<>>
    /\ input_mapping[yielded[Len(yielded)].identifier] # Absent
    /\ Cardinality(MatchingEdges(yielded[Len(yielded)],
            input_mapping[yielded[Len(yielded)].identifier])) = 1

================================================================================
